---- MODULE Spec2Model ----
(***************************************************************************)
(* Model of backend/server.py: the session routes (create_session, get_me, *)
(* logout), the protected handlers gated by get_current_user, the chat     *)
(* handler ai_chat and the history read get_ai_history.                    *)
(*                                                                         *)
(* auth.py and models.py (process_session_id, get_current_user,            *)
(* ChatMessage) are imported by server.py but are not part of the sources  *)
(* at hand; they are modelled from the design document, sections 4.1, 4.2  *)
(* and 3.                                                                  *)
(*                                                                         *)
(* Time is counted in whole days for sessions (variable now); chat         *)
(* messages carry a timestamp read from a separate fine-grained clock      *)
(* (variable clock).                                                       *)
(***************************************************************************)
EXTENDS Integers, Sequences, FiniteSets, TLC

\* ---------------------------------------------------------------- bounds
MaxTime == 8            \* last day the model's clock reaches
MaxSessions == 2        \* number of session tokens that can be minted
MaxMintDay == 1         \* exchanges run on days 0 .. MaxMintDay, and again from
                        \* the day the first sessions expire
MaxGateTurns == 1       \* number of chat turns that can be started
MaxTurns == 2           \* the same, in the specification of the chat turns
MaxSeqTurns == 26       \* the same, for turns that run one after another
MaxLen == 5             \* longest message sequence handed to reconstruct

\* ------------------------------------------------------ program constants
SessionDays == 7                 \* validity window of a Session, in days
SecondsPerDay == 24 * 60 * 60
CookieMaxAge == 7 * 24 * 60 * 60 \* max_age of the session_token cookie
DefaultConfidence == 90          \* messages[i].get("confidence", 90)
ChatConfidence == 92             \* confidence stored by ai_chat
HistoryLimit == 50               \* .limit(50).to_list(50)

\* ------------------------------------------------------------ value sets
NoToken == 0                     \* no session_token presented (None)
Tokens == 1 .. MaxSessions       \* tokens the store can mint
NoUser == 0
Exchangers == {"x1", "x2"}       \* concurrent create_session requests
Identity == [e1 |-> "alice", e2 |-> "bob"]   \* provider: session_id -> principal
ExternalIds == {"e1", "e2", "bad"}           \* "bad" is rejected by the provider
Principals == {"alice", "bob"}

Chatters == {"c1", "c2"}         \* concurrent ai_chat requests
AuthErrors == {"Unauthenticated", "SessionNotFound", "SessionExpired"}

VARIABLES
    now,            \* current time, in days
    users,          \* db.users: set of [id, principal]
    user_sessions,  \* db.user_sessions: set of Session records
    minted,         \* tokens generated so far (the generator never repeats)
    xreq,           \* per Exchanger: the in-flight create_session request
    issued,         \* responses of create_session: token, user and cookie, and
                    \* whether another exchange of the same identifier was in flight
    revoked,        \* issued tokens for which logout has completed
    chat_messages,  \* db.chat_messages, in insertion order
    clock,          \* fine-grained clock read by ChatMessage timestamps
    turns,          \* number of chat turns admitted so far
    creq,           \* per Chatter: the in-flight ai_chat request
    messages,       \* the newest-first list the history loop walks
    conversations,  \* the list the history loop builds and returns
    rpc,            \* position of the history computation under study
    db,             \* "configured", or "none" when MONGO_URL/DB_NAME are not set
    last            \* the most recent request and its response

authVars == <<now, users, user_sessions, minted, xreq, issued, revoked>>
chatVars == <<chat_messages, clock, turns, creq>>
reconVars == <<messages, conversations, rpc>>
vars == <<now, users, user_sessions, minted, xreq, issued, revoked,
          chat_messages, clock, turns, creq, messages, conversations, rpc, db, last>>


\* ------------------------------------------------------------- responses
\* One request and what it answered. reads: the collections the handler body
\* read (the lookups of the auth dependency are not counted). matched: whether
\* the token of a logout named a Session record when the request arrived.
\* conversations: the list GET /ai/history returned. turn, confidence, cause:
\* for an answer of POST /ai/chat, the chat turn it ends, the confidence it
\* reports and which await raised ("completion", "store") if one did.
Event(op, token, err, user_id, body, reads) ==
    [op |-> op, token |-> token, err |-> err, user_id |-> user_id,
     body |-> body, reads |-> reads, matched |-> FALSE, conversations |-> <<>>,
     turn |-> 0, confidence |-> 0, cause |-> "none"]

Internal(op) == Event(op, NoToken, "none", NoUser, "none", {})

\* ------------------------------------------------- auth.py (from the design)
\* resolve: section 4.2. The result is the user or the failure.
get_current_user(session_token, sessions, t) ==
    IF session_token = NoToken
    THEN [err |-> "Unauthenticated", user_id |-> NoUser]
    ELSE LET found == {s \in sessions : s.session_token = session_token} IN
         IF found = {}
         THEN [err |-> "SessionNotFound", user_id |-> NoUser]
         ELSE LET s == CHOOSE r \in found : TRUE IN
              IF s.expires_at <= t
              THEN [err |-> "SessionExpired", user_id |-> NoUser]
              ELSE [err |-> "none", user_id |-> s.user_id]

\* Identity Provider: verify(external_session_id), section 6.
verify(session_id) ==
    IF session_id \in DOMAIN Identity
    THEN [err |-> "none", principal |-> Identity[session_id]]
    ELSE [err |-> "IdentityProviderError", principal |-> "nobody"]

\* Variant: the User is inserted without looking for an existing one.
insert_user(us, principal) ==
    us \cup {[id |-> Cardinality(us) + 1, principal |-> principal]}

\* Atomic upsert of the User of a principal, section 4.1: created on first
\* sight, reused afterwards.
upsert_user(us, principal) ==
    IF \E u \in us : u.principal = principal
    THEN us
    ELSE us \cup {[id |-> Cardinality(us) + 1, principal |-> principal]}

user_of(us, principal) == (CHOOSE u \in us : u.principal = principal).id

\* A fresh token: one the generator has not produced before.
new_token(made) == Cardinality(made) + 1

\* The Session minted at time t, section 4.1.
new_session(token, user_id, t) ==
    [session_token |-> token, user_id |-> user_id,
     created_at |-> t, expires_at |-> t + SessionDays]

\* ------------------------------------------------------------- server.py
\* Variant: the lifetime computed in minutes instead of seconds.
set_cookie_minutes(token) ==
    [key |-> "session_token", value |-> token, max_age |-> 7 * 24 * 60]

\* response.set_cookie(key="session_token", ..., max_age=7*24*60*60, path="/")
set_cookie(token) == [key |-> "session_token", value |-> token, max_age |-> CookieMaxAge]

\* Variant: every session of the token's user is deleted.
delete_many_of_user(sessions, session_token) ==
    {s \in sessions :
        \A r \in sessions : r.session_token = session_token => s.user_id # r.user_id}

\* Variant: an empty filter, the whole collection is deleted.
delete_all(sessions, session_token) == {}

\* db.user_sessions.delete_one({"session_token": session_token})
delete_one(sessions, session_token) ==
    IF \E s \in sessions : s.session_token = session_token
    THEN sessions \ {CHOOSE s \in sessions : s.session_token = session_token}
    ELSE sessions

\* Variant: the handler body runs whatever the dependency found.
DependsNothing(current_user) == TRUE

\* The handler body runs only when its dependency returned a user:
\* current_user: User = Depends(lambda req: get_current_user(req, db))
\* The dependency is taken as the call it spells out, get_current_user applied
\* to the request; how the web framework binds the parameter req is not
\* modelled.
Depends(current_user) == current_user.err = "none"

\* @api_router.post("/auth/session"): the cookie is set from the result of
\* process_session_id and the result is returned.
create_session(result) ==
    [session_token |-> result.session_token, user_id |-> result.user_id,
     session_id |-> result.session_id, created_at |-> result.created_at,
     cookie |-> set_cookie(result.session_token),
     concurrent |-> result.concurrent]

\* @api_router.get("/auth/me"): return current_user
get_me(current_user) ==
    Event("auth/me", NoToken, "none", current_user.user_id, "user", {})

\* Variant: the guard inverted, a presented token is not deleted.
logout_inverted(sessions, session_token) ==
    IF session_token = NoToken
    THEN delete_one(sessions, session_token)
    ELSE sessions

\* Variant: no guard, and a missing token deletes with an empty filter.
logout_unguarded(sessions, session_token) ==
    IF session_token = NoToken
    THEN (IF sessions = {} THEN sessions ELSE sessions \ {CHOOSE s \in sessions : TRUE})
    ELSE delete_one(sessions, session_token)

\* @api_router.post("/auth/logout"): the store after the handler.
logout(sessions, session_token) ==
    IF session_token # NoToken
    THEN delete_one(sessions, session_token)
    ELSE sessions

\* What a protected handler answers: the failure of the dependency, or its
\* own response.
Respond(op, token, current_user, response) ==
    IF Depends(current_user)
    THEN [response EXCEPT !.op = op, !.token = token]
    ELSE Event(op, token, current_user.err, NoUser, "none", {})

\* ------------------------------------------------------------ initial state
IdleExchange ==
    [pc |-> "idle", session_id |-> "none", principal |-> "nobody", user_id |-> NoUser]

IdleChat == [pc |-> "idle", user_id |-> NoUser, turn |-> 0, response |-> 0, timestamp |-> 0]

InitAuth ==
    /\ now = 0
    /\ users = {}
    /\ user_sessions = {}
    /\ minted = {}
    /\ xreq = [x \in Exchangers |-> IdleExchange]
    /\ issued = {}
    /\ revoked = {}

InitChat ==
    /\ chat_messages = <<>>
    /\ clock = 0
    /\ turns = 0
    /\ creq = [c \in Chatters |-> IdleChat]

InitRecon ==
    /\ messages = <<>>
    /\ conversations = <<>>
    /\ rpc = "idle"

Init ==
    /\ InitAuth
    /\ InitChat
    /\ InitRecon
    /\ db = "configured"
    /\ last = Internal("start")

\* ------------------------------------------------------------ auth actions
InFlight == {x \in Exchangers : xreq[x].pc # "idle"}

\* The days on which the model lets an exchange run.
MintDay(t) == t <= MaxMintDay \/ t >= SessionDays

\* POST /auth/session arrives and process_session_id asks the Identity
\* Provider; a rejected identifier ends the request.
ExchangeVerify(x, session_id) ==
    /\ xreq[x].pc = "idle"
    /\ MintDay(now)
    /\ Cardinality(minted) + Cardinality(InFlight) < MaxSessions
    /\ LET v == verify(session_id)
       IN IF v.err # "none"
          THEN /\ last' = Event("auth/session", NoToken, v.err, NoUser, "none", {})
               /\ UNCHANGED xreq
          ELSE /\ xreq' = [xreq EXCEPT ![x] = [pc |-> "upsert", session_id |-> session_id,
                                               principal |-> v.principal, user_id |-> NoUser]]
               /\ last' = Internal("auth/session:verify")
    /\ UNCHANGED <<now, users, user_sessions, minted, issued, revoked>>
    /\ UNCHANGED <<chatVars, reconVars, db>>

\* process_session_id upserts the User of the verified principal.
ExchangeUpsert(x) ==
    /\ xreq[x].pc = "upsert"
    /\ users' = upsert_user(users, xreq[x].principal)
    /\ xreq' = [xreq EXCEPT ![x].pc = "mint",
                            ![x].user_id = user_of(users', xreq[x].principal)]
    /\ last' = Internal("auth/session:upsert")
    /\ UNCHANGED <<now, user_sessions, minted, issued, revoked>>
    /\ UNCHANGED <<chatVars, reconVars, db>>

\* process_session_id stores the new Session and returns; create_session
\* sets the cookie and answers.
ExchangeMint(x) ==
    /\ xreq[x].pc = "mint"
    /\ LET token == new_token(minted)
           result == [session_token |-> token, user_id |-> xreq[x].user_id,
                      session_id |-> xreq[x].session_id, created_at |-> now,
                      concurrent |-> \E y \in InFlight \ {x} :
                                        xreq[y].session_id = xreq[x].session_id]
       IN /\ minted' = minted \cup {token}
          /\ user_sessions' = user_sessions \cup {new_session(token, xreq[x].user_id, now)}
          /\ issued' = issued \cup {create_session(result)}
          /\ last' = Event("auth/session", token, "none", xreq[x].user_id, "session", {})
    /\ xreq' = [xreq EXCEPT ![x] = IdleExchange]
    /\ UNCHANGED <<now, users, revoked>>
    /\ UNCHANGED <<chatVars, reconVars, db>>

IssuedTokens == {r.session_token : r \in issued}

\* GET /auth/me with the cookie token (or none).
GetMe(token) ==
    /\ last' = Respond("auth/me", token,
                       get_current_user(token, user_sessions, now),
                       get_me(get_current_user(token, user_sessions, now)))
    /\ UNCHANGED <<authVars, chatVars, reconVars, db>>

\* POST /auth/logout with session_token (or none).
Logout(token) ==
    /\ user_sessions' = logout(user_sessions, token)
    /\ revoked' = IF token \in IssuedTokens THEN revoked \cup {token} ELSE revoked
    /\ last' = [Event("auth/logout", token, "none", NoUser, "Logged out successfully", {})
                  EXCEPT !.matched = \E s \in user_sessions : s.session_token = token]
    /\ UNCHANGED <<now, users, minted, xreq, issued>>
    /\ UNCHANGED <<chatVars, reconVars, db>>

\* A day passes.
Tick ==
    /\ now < MaxTime
    /\ InFlight = {} \/ MintDay(now + 1)
    /\ now' = now + 1
    /\ last' = Internal("tick")
    /\ UNCHANGED <<users, user_sessions, minted, xreq, issued, revoked>>
    /\ UNCHANGED <<chatVars, reconVars, db>>

Next ==
    \/ \E x \in Exchangers, e \in ExternalIds : ExchangeVerify(x, e)
    \/ \E x \in Exchangers : ExchangeUpsert(x)
    \/ \E x \in Exchangers : ExchangeMint(x)
    \/ \E t \in Tokens \cup {NoToken} : GetMe(t)
    \/ \E t \in Tokens \cup {NoToken} : Logout(t)
    \/ Tick

Spec == Init /\ [][Next]_vars

\* ---------------------------------------------------- protected handlers
StaticOps ==
    {"dashboard/metrics", "dashboard/revenue", "dashboard/customer-segmentation",
     "dashboard/regional-performance", "dashboard/ai-insights", "report-categories"}

\* The dashboard handlers and get_report_categories return literal data.
static_handler(op, current_user) ==
    Event(op, NoToken, "none", current_user.user_id, op, {})

\* db.reports: no handler writes it.
db_reports == {}

\* @api_router.get("/reports")
get_reports(current_user) ==
    LET reports == {r \in db_reports : r.user_id = current_user.user_id} IN
    Event("reports", NoToken, "none", current_user.user_id,
          IF reports = {} THEN "mock_reports" ELSE "reports", {"reports"})

\* ------------------------------------------------------------ history read
\* dict.get(key, default)
Get(m, key, default) == IF key \in DOMAIN m THEN m[key] ELSE default

\* timestamp.strftime("%Y-%m-%d %H:%M"): the seconds are cut off.
strftime(timestamp) == timestamp \div 60

\* The loop of get_ai_history from 1-based position i (Python index i - 1).
RECURSIVE pair_from(_, _)
pair_from(msgs, i) ==
    IF i > Len(msgs)
    THEN <<>>
    ELSE (IF i + 1 <= Len(msgs) /\ msgs[i].role = "assistant" /\ msgs[i + 1].role = "user"
          THEN <<[id |-> ((i - 1) \div 2) + 1,
                  question |-> msgs[i + 1].content,
                  answer |-> msgs[i].content,
                  confidence |-> Get(msgs[i], "confidence", DefaultConfidence),
                  timestamp |-> strftime(msgs[i].timestamp)]>>
          ELSE <<>>)
         \o pair_from(msgs, i + 2)

\* Variant: the loop ends at the first pair that is not (assistant, user).
RECURSIVE pair_until_bad(_, _)
pair_until_bad(msgs, i) ==
    IF i + 1 <= Len(msgs) /\ msgs[i].role = "assistant" /\ msgs[i + 1].role = "user"
    THEN <<[id |-> ((i - 1) \div 2) + 1,
            question |-> msgs[i + 1].content,
            answer |-> msgs[i].content,
            confidence |-> Get(msgs[i], "confidence", DefaultConfidence),
            timestamp |-> strftime(msgs[i].timestamp)]>>
         \o pair_until_bad(msgs, i + 2)
    ELSE <<>>

reconstruct_until_bad(msgs) == pair_until_bad(msgs, 1)

\* Variant: after a pair that is not (assistant, user) the loop moves on by
\* one entry, so it finds a valid pair at any position.
RECURSIVE pair_sliding(_, _)
pair_sliding(msgs, i) ==
    IF i + 1 > Len(msgs)
    THEN <<>>
    ELSE IF msgs[i].role = "assistant" /\ msgs[i + 1].role = "user"
         THEN <<[id |-> ((i - 1) \div 2) + 1,
                 question |-> msgs[i + 1].content,
                 answer |-> msgs[i].content,
                 confidence |-> Get(msgs[i], "confidence", DefaultConfidence),
                 timestamp |-> strftime(msgs[i].timestamp)]>>
              \o pair_sliding(msgs, i + 2)
         ELSE pair_sliding(msgs, i + 1)

reconstruct_sliding(msgs) == pair_sliding(msgs, 1)

\* "Group messages into conversations"
reconstruct(msgs) == pair_from(msgs, 1)

\* The literal conversation returned when there is no history. Texts are
\* numbers in this model; 0 is the text of no chat turn and -1 a time no
\* message was formatted to.
MockConversations ==
    <<[id |-> 1, question |-> 0, answer |-> 0,
       confidence |-> ChatConfidence, timestamp |-> -1]>>

\* Variant: the list is returned as built.
history_response_plain(convs) == convs

\* "If no history, return mock data"
history_response(convs) == IF convs = <<>> THEN MockConversations ELSE convs

\* find({"user_id": ...}).sort("timestamp", -1).limit(50).to_list(50)
RECURSIVE sort_desc(_)
sort_desc(ms) ==
    IF ms = {} THEN <<>>
    ELSE LET m == CHOOSE x \in ms : \A y \in ms : y.timestamp <= x.timestamp
         IN <<m>> \o sort_desc(ms \ {m})

Take(seq, n) == IF Len(seq) <= n THEN seq ELSE SubSeq(seq, 1, n)

\* Variant: the fetch window holds an odd number of messages.
list_recent_odd(log, user_id) ==
    Take(sort_desc({log[k] : k \in {j \in 1 .. Len(log) : log[j].user_id = user_id}}),
         HistoryLimit - 1)

\* db.chat_messages.find({"user_id": ...}).sort("timestamp", -1).limit(50)
list_recent(log, user_id) ==
    Take(sort_desc({log[k] : k \in {j \in 1 .. Len(log) : log[j].user_id = user_id}}),
         HistoryLimit)

\* @api_router.get("/ai/history"): the list the handler returns.
get_ai_history(log, current_user) ==
    history_response(reconstruct(list_recent(log, current_user.user_id)))

\* ------------------------------------------------------------- chat handler
\* ChatMessage(user_id=..., role=..., content=..., [confidence=92]) with the
\* timestamp taken when the object is built.
user_message(user_id, content, timestamp) ==
    [user_id |-> user_id, role |-> "user", content |-> content, timestamp |-> timestamp]

ai_message(user_id, content, timestamp) ==
    [user_id |-> user_id, role |-> "assistant", content |-> content,
     confidence |-> ChatConfidence, timestamp |-> timestamp]

\* return AIQueryResponse(answer=response, confidence=92, ...)
chat_answer(user_id, turn) ==
    [Event("ai/chat:response", NoToken, "none", user_id, "answer", {})
        EXCEPT !.turn = turn, !.confidence = ChatConfidence]

\* Variant: the except branch reports the confidence of a real answer.
chat_apology_confident(user_id, turn, cause) ==
    [Event("ai/chat:response", NoToken, "none", user_id, "apology", {})
        EXCEPT !.turn = turn, !.confidence = ChatConfidence, !.cause = cause]

\* except Exception: return AIQueryResponse(answer="I apologize, ...",
\* confidence=0, ...)
chat_apology(user_id, turn, cause) ==
    [Event("ai/chat:response", NoToken, "none", user_id, "apology", {})
        EXCEPT !.turn = turn, !.confidence = 0, !.cause = cause]

\* POST /ai/chat arrives: the dependency resolves the user, then the handler
\* awaits chat.send_message.
ChatBegin(c, token, cap) ==
    LET current_user == get_current_user(token, user_sessions, now) IN
    /\ creq[c].pc = "idle"
    /\ IF Depends(current_user)
       THEN /\ turns < cap
            /\ turns' = turns + 1
            /\ creq' = [creq EXCEPT ![c] = [pc |-> "send_message",
                                            user_id |-> current_user.user_id,
                                            turn |-> turns + 1,
                                            response |-> 0, timestamp |-> 0]]
            /\ last' = [Event("ai/chat", token, "none", current_user.user_id, "none", {})
                          EXCEPT !.turn = turns + 1]
       ELSE /\ last' = Event("ai/chat", token, current_user.err, NoUser, "none", {})
            /\ UNCHANGED <<turns, creq>>
    /\ UNCHANGED <<chat_messages, clock>>
    /\ UNCHANGED <<authVars, reconVars, db>>

\* chat.send_message returns the answer; the user ChatMessage is built.
ChatSend(c) ==
    /\ creq[c].pc = "send_message"
    /\ clock' = clock + 1
    /\ creq' = [creq EXCEPT ![c].pc = "insert_user",
                            ![c].response = creq[c].turn,
                            ![c].timestamp = clock']
    /\ last' = Internal("ai/chat:send_message")
    /\ UNCHANGED <<chat_messages, turns>>
    /\ UNCHANGED <<authVars, reconVars, db>>

\* chat.send_message raises: the except branch answers the apology.
ChatSendFails(c) ==
    /\ creq[c].pc = "send_message"
    /\ creq' = [creq EXCEPT ![c] = IdleChat]
    /\ last' = chat_apology(creq[c].user_id, creq[c].turn, "completion")
    /\ UNCHANGED <<chat_messages, clock, turns>>
    /\ UNCHANGED <<authVars, reconVars, db>>

\* The first insert_one lands; the assistant ChatMessage is built.
ChatInsertUser(c) ==
    /\ creq[c].pc = "insert_user"
    /\ chat_messages' = Append(chat_messages,
                               user_message(creq[c].user_id, creq[c].turn, creq[c].timestamp))
    /\ clock' = clock + 1
    /\ creq' = [creq EXCEPT ![c].pc = "insert_assistant", ![c].timestamp = clock']
    /\ last' = Internal("ai/chat:insert_user")
    /\ UNCHANGED turns
    /\ UNCHANGED <<authVars, reconVars, db>>

\* The first insert_one raises: nothing is stored and the except branch
\* answers the apology.
ChatInsertUserFails(c) ==
    /\ creq[c].pc = "insert_user"
    /\ creq' = [creq EXCEPT ![c] = IdleChat]
    /\ last' = chat_apology(creq[c].user_id, creq[c].turn, "store")
    /\ UNCHANGED <<chat_messages, clock, turns>>
    /\ UNCHANGED <<authVars, reconVars, db>>

\* The second insert_one raises after the first has stored the user message:
\* the except branch answers the apology.
ChatInsertAssistantFails(c) ==
    /\ creq[c].pc = "insert_assistant"
    /\ creq' = [creq EXCEPT ![c] = IdleChat]
    /\ last' = chat_apology(creq[c].user_id, creq[c].turn, "store")
    /\ UNCHANGED <<chat_messages, clock, turns>>
    /\ UNCHANGED <<authVars, reconVars, db>>

\* The second insert_one lands and the answer is returned.
ChatInsertAssistant(c) ==
    /\ creq[c].pc = "insert_assistant"
    /\ chat_messages' = Append(chat_messages,
                               ai_message(creq[c].user_id, creq[c].response, creq[c].timestamp))
    /\ creq' = [creq EXCEPT ![c] = IdleChat]
    /\ last' = chat_answer(creq[c].user_id, creq[c].turn)
    /\ UNCHANGED <<clock, turns>>
    /\ UNCHANGED <<authVars, reconVars, db>>

\* GET of a dashboard route or of /report-categories.
StaticRequest(op, token) ==
    /\ last' = Respond(op, token, get_current_user(token, user_sessions, now),
                       static_handler(op, get_current_user(token, user_sessions, now)))
    /\ UNCHANGED <<authVars, chatVars, reconVars, db>>

\* GET /reports
Reports(token) ==
    /\ last' = Respond("reports", token, get_current_user(token, user_sessions, now),
                       get_reports(get_current_user(token, user_sessions, now)))
    /\ UNCHANGED <<authVars, chatVars, reconVars, db>>

\* GET /ai/history
History(token) ==
    LET current_user == get_current_user(token, user_sessions, now) IN
    /\ IF Depends(current_user)
       THEN last' = [Event("ai/history", token, "none", current_user.user_id,
                           "conversations", {"chat_messages"})
                     EXCEPT !.conversations = get_ai_history(chat_messages, current_user)]
       ELSE last' = Event("ai/history", token, current_user.err, NoUser, "none", {})
    /\ UNCHANGED <<authVars, chatVars, reconVars, db>>

\* The store the gate and chat specifications start from: two users, the
\* session of the first minted on day 0 and that of the second on day 1; it
\* is now day SessionDays - 1.
SeedSession(token) == new_session(token, token, token - 1)

InitSeeded ==
    /\ now = SessionDays - 1
    /\ users = {[id |-> 1, principal |-> "alice"], [id |-> 2, principal |-> "bob"]}
    /\ minted = {1, 2}
    /\ user_sessions = {SeedSession(1), SeedSession(2)}
    /\ xreq = [x \in Exchangers |-> IdleExchange]
    /\ issued = {create_session([session_token |-> 1, user_id |-> 1, session_id |-> "e1",
                                 created_at |-> 0, concurrent |-> FALSE]),
                 create_session([session_token |-> 2, user_id |-> 2, session_id |-> "e2",
                                 created_at |-> 1, concurrent |-> FALSE])}
    /\ revoked = {}

InitGate ==
    /\ InitSeeded
    /\ InitChat
    /\ InitRecon
    /\ db = "configured"
    /\ last = Internal("start")

\* Every protected request against the seeded store; the inserts of a chat
\* turn succeed here, their failures are followed in SpecChat.
NextGate ==
    \/ \E c \in Chatters, t \in Tokens \cup {NoToken} : ChatBegin(c, t, MaxGateTurns)
    \/ \E c \in Chatters : ChatSend(c)
    \/ \E c \in Chatters : ChatSendFails(c)
    \/ \E c \in Chatters : ChatInsertUser(c)
    \/ \E c \in Chatters : ChatInsertAssistant(c)
    \/ \E op \in StaticOps, t \in Tokens \cup {NoToken} : StaticRequest(op, t)
    \/ \E t \in Tokens \cup {NoToken} : Reports(t)
    \/ \E t \in Tokens \cup {NoToken} : History(t)
    \/ \E t \in Tokens \cup {NoToken} : GetMe(t)
    \/ \E t \in Tokens \cup {NoToken} : Logout(t)
    \/ Tick

SpecGate == InitGate /\ [][NextGate]_vars

\* ------------------------------------------------------- public routes
PublicOps == {"root", "landing"}

\* async def root(): return {"message": ..., "status": "healthy"}
root == Event("root", NoToken, "none", NoUser, "healthy", {})

\* Variant: the landing content is fetched from the database.
get_landing_content_stored ==
    IF db = "none"
    THEN Event("landing", NoToken, "ServerError", NoUser, "none", {})
    ELSE Event("landing", NoToken, "none", NoUser, "content", {"landing"})

\* async def get_landing_content(): content = {...}; return content
get_landing_content == Event("landing", NoToken, "none", NoUser, "content", {})

\* GET /api/ : the route has no dependency, so a cookie sent along is ignored.
Root(token) ==
    /\ last' = [root EXCEPT !.token = token]
    /\ UNCHANGED <<authVars, chatVars, reconVars, db>>

\* GET /api/landing
Landing(token) ==
    /\ last' = [get_landing_content EXCEPT !.token = token]
    /\ UNCHANGED <<authVars, chatVars, reconVars, db>>

\* The process starts with or without MONGO_URL/DB_NAME. Without them db is
\* None and there is no store; only the routes that do not touch db are
\* followed in that case. With them the store is the seeded one.
InitPublic ==
    /\ \/ db = "none" /\ InitAuth
       \/ db = "configured" /\ InitSeeded
    /\ InitChat
    /\ InitRecon
    /\ last = Internal("start")

\* The public routes next to the requests that change the Session Store and
\* the message log.
NextPublic ==
    \/ \E t \in Tokens \cup {NoToken} : Root(t)
    \/ \E t \in Tokens \cup {NoToken} : Landing(t)
    \/ db = "configured" /\ \E c \in Chatters, t \in Tokens : ChatBegin(c, t, MaxGateTurns)
    \/ \E c \in Chatters : ChatSend(c)
    \/ \E c \in Chatters : ChatSendFails(c)
    \/ \E c \in Chatters : ChatInsertUser(c)
    \/ \E c \in Chatters : ChatInsertUserFails(c)
    \/ \E c \in Chatters : ChatInsertAssistant(c)
    \/ \E c \in Chatters : ChatInsertAssistantFails(c)
    \/ db = "configured" /\ \E t \in Tokens : Logout(t)
    \/ Tick

SpecPublic == InitPublic /\ [][NextPublic]_vars

\* ---------------------------------------------------- chat turns on their own
\* Both users hold a valid session; chat requests of either user run
\* concurrently and the history is read at any moment.
NextChat ==
    \/ \E c \in Chatters, t \in Tokens \cup {NoToken} : ChatBegin(c, t, MaxTurns)
    \/ \E c \in Chatters : ChatSend(c)
    \/ \E c \in Chatters : ChatSendFails(c)
    \/ \E c \in Chatters : ChatInsertUser(c)
    \/ \E c \in Chatters : ChatInsertUserFails(c)
    \/ \E c \in Chatters : ChatInsertAssistant(c)
    \/ \E c \in Chatters : ChatInsertAssistantFails(c)
    \/ \E t \in Tokens \cup {NoToken} : History(t)

SpecChat == InitGate /\ [][NextChat]_vars

\* ------------------------------------------------- turns one after another
\* One client of the first user sends a chat request only after the previous
\* one was answered; every completion and every insert succeeds.
Client == "c1"

NextSeq ==
    \/ ChatBegin(Client, 1, MaxSeqTurns)
    \/ ChatSend(Client)
    \/ ChatInsertUser(Client)
    \/ ChatInsertAssistant(Client)
    \/ History(1)

SpecSeq == InitGate /\ [][NextSeq]_vars

\* --------------------------------------------- the history loop on its own
\* Newest-first inputs of every length up to MaxLen and every role order, with
\* and without a stored confidence. The k-th entry carries the text k and the
\* entries are 45 seconds apart.
Shapes == [role : {"user", "assistant"}, scored : BOOLEAN]

InputMessage(shape, k, n) ==
    IF shape.scored
    THEN [user_id |-> 1, role |-> shape.role, content |-> k,
          confidence |-> 95, timestamp |-> (n - k) * 45]
    ELSE [user_id |-> 1, role |-> shape.role, content |-> k,
          timestamp |-> (n - k) * 45]

InitReconSpec ==
    /\ InitAuth
    /\ InitChat
    /\ \E n \in 0 .. MaxLen :
          \E f \in [1 .. n -> Shapes] :
              messages = [k \in 1 .. n |-> InputMessage(f[k], k, n)]
    /\ conversations = <<>>
    /\ rpc = "input"
    /\ db = "configured"
    /\ last = Internal("start")

\* The for loop of get_ai_history.
Pair ==
    /\ rpc = "input"
    /\ conversations' = reconstruct(messages)
    /\ rpc' = "paired"
    /\ UNCHANGED <<messages, last, authVars, chatVars, db>>

\* The mock fallback and the return of get_ai_history.
Return ==
    /\ rpc = "paired"
    /\ conversations' = history_response(conversations)
    /\ rpc' = "returned"
    /\ UNCHANGED <<messages, last, authVars, chatVars, db>>

NextRecon ==
    \/ Pair
    \/ Return

SpecRecon == InitReconSpec /\ [][NextRecon]_vars

\* ----------------------------------------------------------- gate claim
ProtectedOps == StaticOps \cup {"auth/me", "reports", "ai/chat", "ai/history"}

\* The token is absent, names no Session record, or names an expired one.
InvalidToken(token) ==
    \/ token = NoToken
    \/ \A s \in user_sessions : s.session_token = token => s.expires_at <= now

resolve(token) == get_current_user(token, user_sessions, now)
SessionTokens == {s.session_token : s \in user_sessions}

\* C2: once logout(t) has completed for an issued token t, every resolve of t
\* fails with SessionNotFound, whatever other exchanges, resolves and logouts
\* ran in between.
C2_RevokedNeverResolves ==
    /\ \A t \in revoked : resolve(t).err = "SessionNotFound"
    /\ (last.op = "auth/me" /\ last.token \in revoked) => last.err = "SessionNotFound"

C2_Witness ==
    /\ last.op = "auth/me"
    /\ last.token \in revoked
    /\ user_sessions # {}
    /\ Cardinality(minted) = MaxSessions

\* C3: a token returned by a successful exchange resolves, before its expiry
\* and before any logout of it, to exactly the user the exchange returned.
C3_IssuedResolvesToItsUser ==
    \A r \in issued :
        (r.session_token \notin revoked /\ now < r.created_at + 7) =>
            /\ resolve(r.session_token) = [err |-> "none", user_id |-> r.user_id]
            /\ (last.op = "auth/me" /\ last.token = r.session_token) =>
                   (last.err = "none" /\ last.user_id = r.user_id)

C3_Witness ==
    /\ last.op = "auth/me"
    /\ last.err = "none"
    /\ last.token \notin revoked
    /\ revoked # {}
    /\ \E r \in issued : r.session_token = last.token /\ now > r.created_at

C5_ConcurrentExchange ==
    /\ \A r1, r2 \in issued :
          (r1 # r2 /\ r1.session_id = r2.session_id) =>
              /\ r1.session_token # r2.session_token
              /\ r1.user_id = r2.user_id
    /\ \A r \in issued :
          /\ Cardinality({u \in users : u.principal = Identity[r.session_id]}) = 1
          /\ r.user_id = user_of(users, Identity[r.session_id])
          /\ r.session_token \in SessionTokens =>
                \E s \in user_sessions :
                    s.session_token = r.session_token /\ s.user_id = r.user_id
    /\ \A u1, u2 \in users : u1.id = u2.id => u1 = u2

\* The first two exchanges ever made ran concurrently for one new principal
\* and both have answered.
C5_Witness ==
    /\ InFlight = {}
    /\ Cardinality(issued) = 2
    /\ \E r1, r2 \in issued :
          /\ r1.session_token # r2.session_token
          /\ r1.session_id = r2.session_id
          /\ r1.concurrent
          /\ resolve(r1.session_token).err = "none"
          /\ resolve(r2.session_token).err = "none"

\* C6: a Session minted at time c expires at exactly c + 7 days, the lifetime
\* of the cookie; resolve fails with SessionExpired exactly from that time on
\* (equality included), and the expiry never changes.
C6_FixedWindowExpiry ==
    /\ \A s \in user_sessions :
          /\ s.expires_at = s.created_at + 7
          /\ (resolve(s.session_token).err = "SessionExpired") <=> (now >= s.created_at + 7)
    /\ \A r \in issued :
          /\ r.cookie.max_age = 7 * SecondsPerDay
          /\ \A s \in user_sessions :
                s.session_token = r.session_token => s.expires_at = r.created_at + 7
    /\ (last.op = "auth/me" /\ last.token \in SessionTokens) =>
          ((last.err = "SessionExpired") <=>
              \E s \in user_sessions : s.session_token = last.token /\ now >= s.expires_at)

C6_Witness ==
    /\ last.op = "auth/me"
    /\ last.err = "SessionExpired"
    /\ \E s \in user_sessions : s.session_token = last.token /\ now = s.expires_at
    /\ \E s \in user_sessions : now = s.expires_at - 1

\* C7: a successful exchange adds exactly one Session record, a logout of t
\* removes at most the record of t, and no step changes any other record or
\* what another token resolves to.
C7_SessionsIndependent ==
    [][/\ (last'.op = "auth/session" /\ last'.err = "none") =>
             \E n \in user_sessions' :
                 /\ n \notin user_sessions
                 /\ n.session_token = last'.token
                 /\ last'.token \notin SessionTokens
                 /\ user_sessions' = user_sessions \cup {n}
       /\ (last'.op = "auth/logout") =>
             /\ user_sessions' \subseteq user_sessions
             /\ \A s \in user_sessions \ user_sessions' : s.session_token = last'.token
       /\ (last'.op \in {"auth/session", "auth/logout"}) =>
             \A s \in user_sessions :
                 s.session_token # last'.token =>
                     /\ s \in user_sessions'
                     /\ get_current_user(s.session_token, user_sessions', now')
                          = get_current_user(s.session_token, user_sessions, now)
      ]_vars

C7_Witness ==
    /\ last.op = "auth/logout"
    /\ last.matched
    /\ \E r \in issued :
          /\ r.session_token = last.token
          /\ \E s \in user_sessions : s.user_id = r.user_id /\ resolve(s.session_token).err = "none"

\* ------------------------------------------------- reconstruction claims
\* Positions (1-based, so the odd ones) where the loop finds a valid pair.
ValidStarts ==
    {i \in 1 .. Len(messages) :
        /\ i % 2 = 1
        /\ i + 1 <= Len(messages)
        /\ messages[i].role = "assistant"
        /\ messages[i + 1].role = "user"}

Rank(i) == Cardinality({j \in ValidStarts : j <= i})

\* C8: the loop emits, in input order, exactly one Conversation per valid pair
\* at an even (0-based) position, with the user entry's text as question, the
\* assistant entry's text as answer and its confidence (90 when absent); every
\* other pair, a dangling last entry included, is dropped and the pairs after
\* it are still emitted.
C8_PairsAreReconstructed ==
    rpc = "paired" =>
        /\ Len(conversations) = Cardinality(ValidStarts)
        /\ \A i \in ValidStarts :
              /\ conversations[Rank(i)].question = messages[i + 1].content
              /\ conversations[Rank(i)].answer = messages[i].content
              /\ conversations[Rank(i)].confidence =
                    (IF "confidence" \in DOMAIN messages[i]
                     THEN messages[i].confidence ELSE 90)

C8_Witness ==
    /\ rpc = "paired"
    /\ Len(messages) % 2 = 1
    /\ Len(conversations) = 1
    /\ 1 \notin ValidStarts
    /\ \E i \in ValidStarts : "confidence" \notin DOMAIN messages[i]

\* C9 (as claimed): the k-th Conversation of the output has identifier k.
C9_IdsInOutputOrder ==
    rpc = "paired" => \A k \in 1 .. Len(conversations) : conversations[k].id = k

\* C10 (as claimed): when the input holds no valid pair, the history read
\* returns an empty sequence.
C10_EmptyHistoryIsEmpty ==
    (rpc = "returned" /\ ValidStarts = {}) => conversations = <<>>

\* C10 (amended): when the input holds no valid pair the loop builds an empty
\* sequence, and the history read returns the one mock Conversation in its
\* place; otherwise it returns what the loop built.
C10_EmptyHistoryIsMocked ==
    /\ (rpc = "paired" /\ ValidStarts = {}) => conversations = <<>>
    /\ (rpc = "returned" /\ ValidStarts = {}) => conversations = MockConversations
    /\ (rpc = "returned" /\ ValidStarts # {}) =>
          /\ Len(conversations) = Cardinality(ValidStarts)
          /\ conversations # MockConversations

C10_Witness ==
    /\ rpc = "returned"
    /\ messages = <<>>
    /\ conversations = MockConversations

\* ------------------------------------------------------- chat log claims
\* The messages of one user, in the order they were stored.
UserLog(user_id) ==
    LET OfUser(m) == m.user_id = user_id IN SelectSeq(chat_messages, OfUser)

UserIds == {u.id : u \in users}

\* The assistant message of the turn whose user message is m, anywhere in log.
Answered(log, m) ==
    \E j \in 1 .. Len(log) : log[j].role = "assistant" /\ log[j].content = m.content

\* C11 (as claimed): in the log of every user, a user message whose turn has
\* been answered is directly followed by the assistant message of the same
\* turn, and that message carries a strictly later timestamp.
C11_AnsweredIsAdjacent ==
    \A u \in UserIds :
        LET log == UserLog(u) IN
        \A i \in 1 .. Len(log) :
            (log[i].role = "user" /\ Answered(log, log[i])) =>
                /\ i + 1 <= Len(log)
                /\ log[i + 1].role = "assistant"
                /\ log[i + 1].content = log[i].content
                /\ log[i + 1].timestamp > log[i].timestamp

\* The positions of log that hold a message of a chat turn.
TurnMessages(log, turn) ==
    {i \in 1 .. Len(log) : log[i].content = turn}

\* C12 (as claimed): when an insert of a chat turn fails, the log holds no
\* message of that turn once the request has been answered; in particular it
\* never holds the user message of the turn without its assistant message.
C12_StoreFailureLeavesNoTrace ==
    (last.op = "ai/chat:response" /\ last.cause = "store") =>
        TurnMessages(chat_messages, last.turn) = {}

C14_CompletionFailureIsAbsorbed ==
    [][/\ (last'.op = "ai/chat:response" /\ last'.cause = "completion") =>
             /\ last'.err = "none"
             /\ last'.body = "apology"
             /\ last'.confidence = 0
             /\ chat_messages' = chat_messages
             /\ TurnMessages(chat_messages', last'.turn) = {}
       /\ (last'.op = "ai/chat:response" /\ last'.body = "answer") =>
             /\ last'.confidence = ChatConfidence
             /\ Cardinality(TurnMessages(chat_messages', last'.turn)) = 2
             /\ \E i, j \in TurnMessages(chat_messages', last'.turn) :
                   /\ i < j
                   /\ chat_messages'[i].role = "user"
                   /\ chat_messages'[j].role = "assistant"
                   /\ chat_messages'[i].user_id = last'.user_id
                   /\ chat_messages'[j].user_id = last'.user_id
       /\ chat_messages' # chat_messages =>
             \E c \in Chatters :
                 /\ creq[c].pc \in {"insert_user", "insert_assistant"}
                 /\ creq[c].response = creq[c].turn
                 /\ Len(chat_messages') = Len(chat_messages) + 1
                 /\ SubSeq(chat_messages', 1, Len(chat_messages)) = chat_messages
                 /\ chat_messages'[Len(chat_messages')].content = creq[c].turn
      ]_vars

\* The completion of the second turn failed after the first turn was stored.
C14_Witness ==
    /\ last.op = "ai/chat:response"
    /\ last.cause = "completion"
    /\ last.turn = 2
    /\ Len(chat_messages) = 2
    /\ TurnMessages(chat_messages, 1) = {1, 2}

\* ------------------------------------------------------- history claims
\* C15 (as claimed): every Conversation a history read returns has the
\* question and the answer of one and the same chat turn. (The content of a
\* stored message is the number of its turn.)
C15_HistoryPairsSameTurn ==
    (last.op = "ai/history" /\ last.err = "none") =>
        \A k \in 1 .. Len(last.conversations) :
            last.conversations[k].question = last.conversations[k].answer

Min(a, b) == IF a <= b THEN a ELSE b

\* Half of the fetch window: the number of whole turns it holds.
WindowTurns == HistoryLimit \div 2

\* C16: after n >= 1 turns of one user that ran one after another and all
\* succeeded, the history read returns min(n, 25) Conversations, the k-th being
\* turn n - k + 1 (newest first) with that turn's question, answer, confidence
\* and minute, and with identifier k; with more than 25 turns the window of 50
\* messages holds the newest 25 turns whole.
C16_SequentialHistory ==
    (last.op = "ai/history" /\ last.err = "none" /\ creq[Client].pc = "idle" /\ turns >= 1) =>
        LET n == turns
            convs == last.conversations
        IN  /\ Len(chat_messages) = 2 * n
            /\ Len(convs) = Min(n, WindowTurns)
            /\ \A k \in 1 .. Len(convs) :
                  /\ convs[k].id = k
                  /\ convs[k].question = n - k + 1
                  /\ convs[k].answer = n - k + 1
                  /\ convs[k].confidence = ChatConfidence
                  /\ convs[k].timestamp = strftime(chat_messages[2 * (n - k + 1)].timestamp)

\* The history is read after 26 turns: the oldest turn is outside the window.
C16_Witness ==
    /\ last.op = "ai/history"
    /\ creq[Client].pc = "idle"
    /\ turns = WindowTurns + 1
    /\ Len(last.conversations) = WindowTurns
    /\ last.conversations[WindowTurns].question = 2

\* What the history read named by last fetched: the newest messages of its
\* user, newest first.
Fetched == list_recent(chat_messages, last.user_id)

\* Positions (1-based) of Fetched where the assistant message of a turn is
\* directly followed by the user message of the same turn.
CompletedPairs ==
    {i \in 1 .. Len(Fetched) - 1 :
        /\ Fetched[i].role = "assistant"
        /\ Fetched[i + 1].role = "user"
        /\ Fetched[i].content = Fetched[i + 1].content}

\* The history output holds the Conversation of a turn.
Shown(turn) ==
    \E k \in 1 .. Len(last.conversations) :
        /\ last.conversations[k].question = turn
        /\ last.conversations[k].answer = turn

\* C17 (as claimed): every adjacent (assistant, user) pair of one completed
\* turn in the fetched log appears in the history output, at whatever
\* position it starts.
C17_UnpairedCostsOnlyItself ==
    (last.op = "ai/history" /\ last.err = "none") =>
        \A i \in CompletedPairs : Shown(Fetched[i].content)

\* C17 (amended): the adjacent (assistant, user) pair of a completed turn
\* appears in the history output exactly when it starts at an even 0-based
\* position (an odd index here); a pair that a newer unpaired entry has
\* shifted to an odd position is hidden.
C17_UnpairedHidesShiftedTurns ==
    (last.op = "ai/history" /\ last.err = "none") =>
        \A i \in CompletedPairs : Shown(Fetched[i].content) <=> i % 2 = 1

\* A history read of a log whose newest entry is the user message of a turn
\* that was never answered, in front of a completed turn.
C17_Witness ==
    /\ last.op = "ai/history"
    /\ last.err = "none"
    /\ Fetched # <<>>
    /\ Fetched[1].role = "user"
    /\ 2 \in CompletedPairs
    /\ ~ Shown(Fetched[2].content)

====
